---- MODULE Spec2Model ----
(***************************************************************************)
(* Task-management REST backend (Express + MongoDB): the credential and    *)
(* token service, the authorization gate, the task aggregate manager and   *)
(* the category manager, as state machines over the stored collections.    *)
(*                                                                         *)
(*   SpecAuth   register / login / refresh / logout, one request at a time *)
(*   SpecTasks  the /tasks and /categories handlers behind the gate, one   *)
(*              request at a time                                          *)
(*   SpecConc   createTask, updateTask and deleteCategory interleaved at   *)
(*              the granularity of single storage calls                    *)
(*   SpecList   GET /tasks with filters, sort and paging over stored tasks *)
(*   SpecCount  createTask and deleteTask interleaved on one category      *)
(*   SpecRefresh  concurrent POST /auth/refresh, lookup and save apart     *)
(***************************************************************************)
EXTENDS Integers, FiniteSets, Sequences, TLC

VARIABLES
    users,       \* the User collection: id -> document
    issued,      \* the tokens handed out in responses (what clients hold)
    now,         \* the clock, in the unit of the JWT iat / exp claims
    tasks,       \* the Task collection: id -> document
    categories,  \* the Category collection: id -> document
    nextId,      \* the ObjectIds consumed so far, per collection (never reused)
    req,         \* the request handled last
    resp,        \* the response sent for it
    procs        \* SpecConc: the requests in flight, each with its position

vars == <<users, issued, now, tasks, categories, nextId, req, resp, procs>>

(***************************************************************************)
(* Bounds of the model and the small input sets                            *)
(***************************************************************************)
MaxUsers == 2
MaxClock == 2
MaxTasks == 1
MaxCats == 2
MaxDrift == 1

Usernames == {"alice", "bob"}
Emails == {"alice@x.com", "bob@x.com"}
Passwords == {"secret1", "secret2"}
CategoryNames == {"Work", "Home"}

UserIds == 1..MaxUsers
TaskIds == 1..MaxTasks
CatIds == 1..MaxCats

Null == 0
NoToken == <<>>
NoUser == 0

(***************************************************************************)
(* Token collaborator (jsonwebtoken, HS256): a signed token is determined  *)
(* by the signing secret, the subject id and the second it was signed in   *)
(* (iat); exp is iat plus the configured lifetime.                         *)
(***************************************************************************)
JWT_EXPIRE == 2
JWT_REFRESH_EXPIRE == 3

jwtSign(id, secret, t) == <<secret, id, t>>

jwtVerify(token, secret, expire, t) ==
    /\ Len(token) = 3
    /\ token[1] = secret
    /\ t < token[3] + expire

generateToken(id, t) == jwtSign(id, "JWT_SECRET", t)

generateRefreshToken(id, t) == jwtSign(id, "JWT_REFRESH_SECRET", t)

\* what a client can put in a token field: a token it was given, or one it made up
ForgedTokens == {<<"forged", 1, 0>>}
PresentableTokens == issued \cup ForgedTokens
AccessTokens == {t \in issued : t[1] = "JWT_SECRET"}

(***************************************************************************)
(* User model: password hashing and verification                           *)
(***************************************************************************)
hashPassword(p) == <<"hash", p>>

comparePassword(user, p) == user.password = hashPassword(p)

(***************************************************************************)
(* Responses: the uniform envelope {success, data | error:{code,message}}  *)
(***************************************************************************)
Failure(status, code, message) ==
    [status |-> status, code |-> code, message |-> message, tokens |-> <<>>]

Success(status, message) ==
    [status |-> status, code |-> "", message |-> message, tokens |-> <<>>]

SuccessWithTokens(status, message, access, refresh) ==
    [status |-> status, code |-> "", message |-> message,
     tokens |-> <<access, refresh>>]

\* a request: where it is in the middleware chain, the route it was dispatched to
\* and req.user as the gate attached it
Request(stage, op, user) == [stage |-> stage, op |-> op, user |-> user]

NoRequest == Request("none", "", NoUser)
NoResponse == Success(0, "")

(***************************************************************************)
(* Authorization gate                                                      *)
(***************************************************************************)
NoHeader == [scheme |-> "", token |-> NoToken]

\* no header, a header that is not a Bearer one, and Bearer headers carrying a
\* forged token or an access token that was issued
Headers ==
    {NoHeader}
        \cup {[scheme |-> "Basic", token |-> t] : t \in ForgedTokens}
        \cup {[scheme |-> "Bearer", token |-> t] : t \in AccessTokens \cup ForgedTokens}

\* protect: the outcome is the user id attached to the request, or a rejection
protectOutcome(header, us, t) ==
    LET token == IF header.scheme = "Bearer" THEN header.token ELSE NoToken
    IN  IF token = NoToken
        THEN [user |-> NoUser,
              resp |-> Failure(401, "UNAUTHORIZED", "No authentication token provided")]
        ELSE IF ~jwtVerify(token, "JWT_SECRET", JWT_EXPIRE, t)
        THEN [user |-> NoUser,
              resp |-> Failure(401, "UNAUTHORIZED", "Invalid or expired token")]
        ELSE IF token[2] \notin DOMAIN us
        THEN [user |-> NoUser,
              resp |-> Failure(401, "UNAUTHORIZED", "User not found")]
        ELSE [user |-> token[2], resp |-> NoResponse]

(***************************************************************************)
(* Credential and token service                                            *)
(***************************************************************************)
\* the existence check with the username branch of the $or left out
findUserByEmailOnly(us, email, username) ==
    {u \in DOMAIN us : us[u].email = email}

\* User.findOne({ $or: [{ email }, { username }] })
findUserByEmailOrUsername(us, email, username) ==
    {u \in DOMAIN us : us[u].email = email \/ us[u].username = username}

\* User.findOne({ email })
findUserByEmail(us, email) == {u \in DOMAIN us : us[u].email = email}

\* User.findOne({ _id, refreshToken })
findUserByIdAndRefreshToken(us, id, token) ==
    {u \in DOMAIN us : u = id /\ us[u].refreshToken = token}

registerOutcome(us, t, username, email, password) ==
    IF findUserByEmailOrUsername(us, email, username) # {}
    THEN [users |-> us,
          resp |-> Failure(409, "USER_EXISTS",
                           "User with this email or username already exists")]
    ELSE LET id == Cardinality(DOMAIN us) + 1
             accessToken == generateToken(id, t)
             refreshToken == generateRefreshToken(id, t)
             user == [username |-> username, email |-> email,
                      password |-> hashPassword(password),
                      refreshToken |-> refreshToken]
         IN  [users |-> [u \in DOMAIN us \cup {id} |->
                            IF u = id THEN user ELSE us[u]],
              resp |-> SuccessWithTokens(201, "Registration successful",
                                         accessToken, refreshToken)]

\* login answering an unknown email with a message of its own
loginOutcomeTellsUnknown(us, t, email, password) ==
    LET found == {u \in DOMAIN us : us[u].email = email}
    IN  IF found = {}
        THEN [users |-> us,
              resp |-> Failure(401, "INVALID_CREDENTIALS", "User not found")]
        ELSE LET id == CHOOSE u \in found : TRUE
             IN  IF us[id].password # hashPassword(password)
                 THEN [users |-> us,
                       resp |-> Failure(401, "INVALID_CREDENTIALS",
                                        "Invalid email or password")]
                 ELSE [users |-> [us EXCEPT ![id].refreshToken =
                                     generateRefreshToken(id, t)],
                       resp |-> SuccessWithTokens(200, "Login successful",
                                                  generateToken(id, t),
                                                  generateRefreshToken(id, t))]

\* login returning the new tokens without saving the refresh token on the user
loginOutcomeNotSaved(us, t, email, password) ==
    LET found == {u \in DOMAIN us : us[u].email = email}
    IN  IF found = {}
        THEN [users |-> us,
              resp |-> Failure(401, "INVALID_CREDENTIALS", "Invalid email or password")]
        ELSE LET id == CHOOSE u \in found : TRUE
             IN  IF us[id].password # hashPassword(password)
                 THEN [users |-> us,
                       resp |-> Failure(401, "INVALID_CREDENTIALS",
                                        "Invalid email or password")]
                 ELSE [users |-> us,
                       resp |-> SuccessWithTokens(200, "Login successful",
                                                  generateToken(id, t),
                                                  generateRefreshToken(id, t))]

loginOutcome(us, t, email, password) ==
    LET found == findUserByEmail(us, email)
    IN  IF found = {}
        THEN [users |-> us,
              resp |-> Failure(401, "INVALID_CREDENTIALS", "Invalid email or password")]
        ELSE LET id == CHOOSE u \in found : TRUE
             IN  IF ~comparePassword(us[id], password)
                 THEN [users |-> us,
                       resp |-> Failure(401, "INVALID_CREDENTIALS",
                                        "Invalid email or password")]
                 ELSE LET accessToken == generateToken(id, t)
                          refreshToken == generateRefreshToken(id, t)
                      IN  [users |-> [us EXCEPT ![id].refreshToken = refreshToken],
                           resp |-> SuccessWithTokens(200, "Login successful",
                                                      accessToken, refreshToken)]

refreshOutcome(us, t, token) ==
    IF token = NoToken
    THEN [users |-> us,
          resp |-> Failure(401, "NO_TOKEN", "Refresh token is required")]
    ELSE IF ~jwtVerify(token, "JWT_REFRESH_SECRET", JWT_REFRESH_EXPIRE, t)
    THEN [users |-> us,
          resp |-> Failure(401, "TOKEN_ERROR", "jwt verification failed")]
    ELSE LET found == findUserByIdAndRefreshToken(us, token[2], token)
         IN  IF found = {}
             THEN [users |-> us,
                   resp |-> Failure(401, "INVALID_TOKEN", "Invalid refresh token")]
             ELSE LET id == CHOOSE u \in found : TRUE
                      newAccessToken == generateToken(id, t)
                      newRefreshToken == generateRefreshToken(id, t)
                  IN  [users |-> [us EXCEPT ![id].refreshToken = newRefreshToken],
                       resp |-> SuccessWithTokens(200, "", newAccessToken,
                                                  newRefreshToken)]

\* the logout that answers without clearing the stored refresh token
logoutOutcomeKeepsToken(us, id) ==
    [users |-> us, resp |-> Success(200, "Logged out successfully")]

\* User.findByIdAndUpdate(req.user.id, { refreshToken: null })
logoutOutcome(us, id) ==
    [users |-> [us EXCEPT ![id].refreshToken = NoToken],
     resp |-> Success(200, "Logged out successfully")]

TokensOf(r) == {r.tokens[i] : i \in 1..Len(r.tokens)}

\* no request is being handled: the next one may come in
Idle == req.stage # "authorized"

\* the gate let the request through and the handler has not run yet
Authorized == req.stage = "authorized"

\* router.use(protect) / the protect argument of a route: the gate runs first
protect(header) ==
    /\ Idle
    /\ LET gate == protectOutcome(header, users, now)
       IN  IF gate.user = NoUser
           THEN /\ resp' = gate.resp
                /\ req' = Request("rejected", "", NoUser)
           ELSE /\ resp' = NoResponse
                /\ req' = Request("authorized", "", gate.user)
    /\ UNCHANGED <<users, issued, now, tasks, categories, nextId, procs>>

register(username, email, password) ==
    /\ Idle
    /\ \/ Cardinality(DOMAIN users) < MaxUsers
       \/ findUserByEmailOrUsername(users, email, username) # {}
    /\ LET out == registerOutcome(users, now, username, email, password)
       IN  /\ users' = out.users
           /\ resp' = out.resp
           /\ issued' = issued \cup TokensOf(out.resp)
    /\ req' = Request("done", "register", NoUser)
    /\ UNCHANGED <<now, tasks, categories, nextId, procs>>

login(email, password) ==
    /\ Idle
    /\ LET out == loginOutcome(users, now, email, password)
       IN  /\ users' = out.users
           /\ resp' = out.resp
           /\ issued' = issued \cup TokensOf(out.resp)
    /\ req' = Request("done", "login", NoUser)
    /\ UNCHANGED <<now, tasks, categories, nextId, procs>>

refreshToken(token) ==
    /\ Idle
    /\ LET out == refreshOutcome(users, now, token)
       IN  /\ users' = out.users
           /\ resp' = out.resp
           /\ issued' = issued \cup TokensOf(out.resp)
    /\ req' = Request("done", "refresh", NoUser)
    /\ UNCHANGED <<now, tasks, categories, nextId, procs>>

logout ==
    /\ Authorized
    /\ LET out == logoutOutcome(users, req.user)
       IN  /\ users' = out.users
           /\ resp' = out.resp
    /\ req' = Request("done", "logout", req.user)
    /\ UNCHANGED <<issued, now, tasks, categories, nextId, procs>>

\* a second of the clock passes
Tick ==
    /\ now < MaxClock
    /\ now' = now + 1
    /\ UNCHANGED <<users, issued, req, resp, tasks, categories, nextId, procs>>

InitAuth ==
    /\ users = <<>>
    /\ issued = {}
    /\ now = 0
    /\ tasks = <<>>
    /\ categories = <<>>
    /\ nextId = [task |-> 1, category |-> 1]
    /\ req = NoRequest
    /\ resp = NoResponse
    /\ procs = <<>>

NextAuth ==
    \/ \E username \in Usernames, email \in Emails, password \in Passwords :
           register(username, email, password)
    \/ \E email \in Emails, password \in Passwords : login(email, password)
    \/ \E token \in PresentableTokens \cup {NoToken} : refreshToken(token)
    \/ \E header \in Headers : protect(header)
    \/ logout
    \/ Tick

SpecAuth == InitAuth /\ [][NextAuth]_vars

(***************************************************************************)
(* Task and Category documents                                             *)
(***************************************************************************)
Statuses == {"todo", "in-progress", "completed", "archived"}
Priorities == {"low", "medium", "high"}
Titles == {"Write spec"}

\* the priorities the requests of the model carry
PriorityInputs == {"low", "high"}

\* Task schema defaults
DefaultStatus == "todo"
DefaultPriority == "medium"

\* a body key the request does not carry reads as undefined
Undefined == -1
UndefinedPriority == "undefined"

Truthy(v) == v # Null /\ v # Undefined

\* the task lookup with the owner left out of the filter
findTaskAnyOwner(ts, id, user) == {t \in DOMAIN ts : t = id}

\* Task.findOne({ _id, user })
findTask(ts, id, user) == {t \in DOMAIN ts : t = id /\ ts[t].user = user}

\* Category.findOne({ _id, user })
findCategory(cs, id, user) == {c \in DOMAIN cs : c = id /\ cs[c].user = user}

\* Category.findOne({ name, user })
findCategoryByName(cs, name, user) ==
    {c \in DOMAIN cs : cs[c].name = name /\ cs[c].user = user}

\* Category.findByIdAndUpdate(id, { $inc: { taskCount: d } }): no document, no effect
incTaskCount(cs, id, d) ==
    IF id \in DOMAIN cs
    THEN [cs EXCEPT ![id].taskCount = cs[id].taskCount + d]
    ELSE cs

Insert(coll, id, doc) == [k \in DOMAIN coll \cup {id} |-> IF k = id THEN doc ELSE coll[k]]

Remove(coll, id) == [k \in DOMAIN coll \ {id} |-> coll[k]]

Db(ts, cs, ids) == [tasks |-> ts, categories |-> cs, nextId |-> ids]

Result(db, r) == [db |-> db, resp |-> r]

NotFound(message) == Failure(404, "NOT_FOUND", message)

(***************************************************************************)
(* Task aggregate manager                                                  *)
(***************************************************************************)
getTaskOutcome(db, user, id) ==
    IF findTask(db.tasks, id, user) = {}
    THEN Result(db, NotFound("Task not found"))
    ELSE Result(db, Success(200, ""))

createTaskOutcome(db, user, title, priority, category) ==
    IF Truthy(category) /\ findCategory(db.categories, category, user) = {}
    THEN Result(db, NotFound("Category not found"))
    ELSE LET id == db.nextId.task
             task == [user |-> user,
                      title |-> title,
                      status |-> DefaultStatus,
                      priority |-> IF priority = UndefinedPriority
                                   THEN DefaultPriority ELSE priority,
                      category |-> IF category = Undefined THEN Null ELSE category,
                      sharedWith |-> <<>>]
             cs == IF Truthy(category)
                   THEN incTaskCount(db.categories, category, 1)
                   ELSE db.categories
         IN  Result(Db(Insert(db.tasks, id, task), cs,
                       [db.nextId EXCEPT !.task = id + 1]),
                    Success(201, "Task created successfully"))

\* Object.keys(req.body).forEach(key => { if (key !== 'user' && key !== '_id') ... })
assignBody(task, body) ==
    [k \in DOMAIN task |->
        IF k \in DOMAIN body /\ k # "user" /\ k # "_id" THEN body[k] ELSE task[k]]

updateTaskOutcome(db, user, id, body) ==
    IF findTask(db.tasks, id, user) = {}
    THEN Result(db, NotFound("Task not found"))
    ELSE LET task == db.tasks[id]
             oldCategory == task.category
             newCategory == IF "category" \in DOMAIN body
                            THEN body.category ELSE Undefined
             cs1 == IF Truthy(oldCategory) /\ oldCategory # newCategory
                    THEN incTaskCount(db.categories, oldCategory, -1)
                    ELSE db.categories
         IN  IF Truthy(newCategory) /\ oldCategory # newCategory
             THEN IF findCategory(cs1, newCategory, user) = {}
                  THEN Result(Db(db.tasks, cs1, db.nextId),
                              NotFound("Category not found"))
                  ELSE Result(Db([db.tasks EXCEPT ![id] = assignBody(task, body)],
                                 incTaskCount(cs1, newCategory, 1), db.nextId),
                              Success(200, "Task updated successfully"))
             ELSE Result(Db([db.tasks EXCEPT ![id] = assignBody(task, body)],
                            cs1, db.nextId),
                         Success(200, "Task updated successfully"))

\* the delete leaving the category's counter alone
deleteTaskOutcomeNoDecrement(db, user, id) ==
    IF {t \in DOMAIN db.tasks : t = id /\ db.tasks[t].user = user} = {}
    THEN Result(db, NotFound("Task not found"))
    ELSE Result(Db(Remove(db.tasks, id), db.categories, db.nextId), Success(204, ""))

deleteTaskOutcome(db, user, id) ==
    IF findTask(db.tasks, id, user) = {}
    THEN Result(db, NotFound("Task not found"))
    ELSE LET task == db.tasks[id]
             cs == IF Truthy(task.category)
                   THEN incTaskCount(db.categories, task.category, -1)
                   ELSE db.categories
         IN  Result(Db(Remove(db.tasks, id), cs, db.nextId), Success(204, ""))

\* the status update with the archived rule left out
updateTaskStatusOutcomeNoRule(db, user, id, status) ==
    IF {t \in DOMAIN db.tasks : t = id /\ db.tasks[t].user = user} = {}
    THEN Result(db, NotFound("Task not found"))
    ELSE Result(Db([db.tasks EXCEPT ![id].status = status],
                   db.categories, db.nextId),
                Success(200, "Task status updated"))

updateTaskStatusOutcome(db, user, id, status) ==
    IF findTask(db.tasks, id, user) = {}
    THEN Result(db, NotFound("Task not found"))
    ELSE IF db.tasks[id].status = "archived" /\ status # "archived"
    THEN Result(db, Failure(400, "INVALID_TRANSITION",
                            "Cannot change status from archived"))
    ELSE Result(Db([db.tasks EXCEPT ![id].status = status],
                   db.categories, db.nextId),
                Success(200, "Task status updated"))

updateTaskPriorityOutcome(db, user, id, priority) ==
    IF findTask(db.tasks, id, user) = {}
    THEN Result(db, NotFound("Task not found"))
    ELSE Result(Db([db.tasks EXCEPT ![id].priority = priority],
                   db.categories, db.nextId),
                Success(200, "Task priority updated"))

\* the controller never imports User: evaluating User.findById throws a
\* ReferenceError, which the handler's catch turns into a 500
shareTaskOutcome(db, user, id, userId) ==
    IF findTask(db.tasks, id, user) = {}
    THEN Result(db, NotFound("Task not found"))
    ELSE Result(db, Failure(500, "SERVER_ERROR", "User is not defined"))

(***************************************************************************)
(* Category manager                                                        *)
(***************************************************************************)
createCategoryOutcome(db, user, name) ==
    IF findCategoryByName(db.categories, name, user) # {}
    THEN Result(db, Failure(409, "CATEGORY_EXISTS",
                            "Category with this name already exists"))
    ELSE LET id == db.nextId.category
             category == [name |-> name, user |-> user, taskCount |-> 0]
         IN  Result(Db(db.tasks, Insert(db.categories, id, category),
                       [db.nextId EXCEPT !.category = id + 1]),
                    Success(201, "Category created successfully"))

\* the cascade with the category left out of the filter
clearCategoryOfUser(ts, category, user) ==
    [t \in DOMAIN ts |->
        IF ts[t].user = user THEN [ts[t] EXCEPT !.category = Null] ELSE ts[t]]

\* Task.updateMany({ category, user }, { category: null })
clearCategory(ts, category, user) ==
    [t \in DOMAIN ts |->
        IF ts[t].category = category /\ ts[t].user = user
        THEN [ts[t] EXCEPT !.category = Null] ELSE ts[t]]

deleteCategoryOutcome(db, user, id) ==
    IF findCategory(db.categories, id, user) = {}
    THEN Result(db, NotFound("Category not found"))
    ELSE Result(Db(clearCategory(db.tasks, id, user),
                   Remove(db.categories, id), db.nextId),
                Success(200, "Category deleted successfully"))

(***************************************************************************)
(* The protected routes: router.use(protect), then the handler             *)
(***************************************************************************)
CurrentDb == Db(tasks, categories, nextId)

\* the request bodies of PUT /tasks/:id : the title the validation requires and
\* at most one further key
ShareInputs == {1, 2}

UpdateBodies ==
    {[title |-> t] : t \in Titles}
        \cup {[title |-> t, category |-> c] : t \in Titles, c \in CatIds \cup {Null}}
        \cup {[title |-> t, status |-> s] : t \in Titles, s \in Statuses}
        \cup {[title |-> t, sharedWith |-> <<u>>] : t \in Titles, u \in ShareInputs}
        \cup {[title |-> t, user |-> u] : t \in Titles, u \in DOMAIN users}

\* the model's bound on how far a counter may run away from the tasks there are
CountsWithinBounds(cs) ==
    \A c \in DOMAIN cs :
        /\ cs[c].taskCount >= -MaxDrift
        /\ cs[c].taskCount <= MaxTasks + MaxDrift

\* the model's bounds on what a request may still do
WithinBounds(db) ==
    /\ db.nextId.task <= MaxTasks + 1
    /\ db.nextId.category <= MaxCats + 1
    /\ CountsWithinBounds(db.categories)

Protected(op, out) ==
    /\ Authorized
    /\ WithinBounds(out.db)
    /\ tasks' = out.db.tasks
    /\ categories' = out.db.categories
    /\ nextId' = out.db.nextId
    /\ resp' = out.resp
    /\ req' = Request("done", op, req.user)
    /\ UNCHANGED <<users, issued, now, procs>>

getTask(id) == Protected("getTask", getTaskOutcome(CurrentDb, req.user, id))

createTask(title, priority, category) ==
    Protected("createTask",
              createTaskOutcome(CurrentDb, req.user, title, priority, category))

updateTask(id, body) ==
    Protected("updateTask", updateTaskOutcome(CurrentDb, req.user, id, body))

deleteTask(id) == Protected("deleteTask", deleteTaskOutcome(CurrentDb, req.user, id))

updateTaskStatus(id, status) ==
    Protected("updateTaskStatus", updateTaskStatusOutcome(CurrentDb, req.user, id, status))

updateTaskPriority(id, priority) ==
    Protected("updateTaskPriority",
              updateTaskPriorityOutcome(CurrentDb, req.user, id, priority))

shareTask(id, userId) ==
    Protected("shareTask", shareTaskOutcome(CurrentDb, req.user, id, userId))

createCategory(name) ==
    Protected("createCategory", createCategoryOutcome(CurrentDb, req.user, name))

deleteCategory(id) ==
    Protected("deleteCategory", deleteCategoryOutcome(CurrentDb, req.user, id))

\* alice registered at time 0; once her first access token had expired she
\* logged in again, and bob registered
RegisteredUsers ==
    LET r1 == registerOutcome(<<>>, 0, "alice", "alice@x.com", "secret1")
        l1 == loginOutcome(r1.users, JWT_EXPIRE, "alice@x.com", "secret1")
        r2 == registerOutcome(l1.users, JWT_EXPIRE, "bob", "bob@x.com", "secret2")
    IN  [users |-> r2.users,
         issued |-> TokensOf(r1.resp) \cup TokensOf(l1.resp) \cup TokensOf(r2.resp)]

InitTasks ==
    /\ users = RegisteredUsers.users
    /\ issued = RegisteredUsers.issued
    /\ now = JWT_EXPIRE
    /\ tasks = <<>>
    /\ categories = <<>>
    /\ nextId = [task |-> 1, category |-> 1]
    /\ req = NoRequest
    /\ resp = NoResponse
    /\ procs = <<>>

NextTasks ==
    \/ \E header \in Headers : protect(header)
    \/ \E id \in TaskIds : getTask(id)
    \/ \E title \in Titles, priority \in PriorityInputs \cup {UndefinedPriority},
          category \in CatIds \cup {Undefined} :
           createTask(title, priority, category)
    \/ \E id \in TaskIds, body \in UpdateBodies : updateTask(id, body)
    \/ \E id \in TaskIds : deleteTask(id)
    \/ \E id \in TaskIds, status \in Statuses : updateTaskStatus(id, status)
    \/ \E id \in TaskIds, priority \in PriorityInputs : updateTaskPriority(id, priority)
    \/ \E id \in TaskIds, userId \in UserIds : shareTask(id, userId)
    \/ \E name \in CategoryNames : createCategory(name)
    \/ \E id \in CatIds : deleteCategory(id)

SpecTasks == InitTasks /\ [][NextTasks]_vars

(***************************************************************************)
(* Query filter builder and GET /tasks. A query-string value is the sequence *)
(* of its words and separator characters; a parameter the request does not *)
(* carry is the empty sequence.                                            *)
(***************************************************************************)
MaxListTasks == 3
MaxPage == 2
MaxLimit == 2

\* the string of a run of words (the model's strings hold at most one word
\* between two separators)
wordOf(seg) == IF seg = <<>> THEN "" ELSE seg[1]

\* String.prototype.split(sep)
RECURSIVE split(_, _)
split(str, sep) ==
    IF \A i \in 1..Len(str) : str[i] # sep
    THEN <<wordOf(str)>>
    ELSE LET i == CHOOSE k \in 1..Len(str) :
                      str[k] = sep /\ \A j \in 1..(k - 1) : str[j] # sep
         IN  <<wordOf(SubSeq(str, 1, i - 1))>> \o split(SubSeq(str, i + 1, Len(str)), sep)

\* parseInt(numeral, 10) on a sequence of decimal digits
RECURSIVE parseInt(_)
parseInt(digits) ==
    IF digits = <<>> THEN 0
    ELSE 10 * parseInt(SubSeq(digits, 1, Len(digits) - 1)) + digits[Len(digits)]

\* the filter with the status condition left out
buildFilterQueryNoStatus(user, filters) ==
    [user |-> user, hasStatus |-> FALSE, statusIn |-> {}, priority |-> filters.priority]

buildFilterQuery(user, filters) ==
    [user |-> user,
     hasStatus |-> filters.status # <<>>,
     statusIn |-> IF filters.status # <<>>
                  THEN {split(filters.status, ",")[i] :
                            i \in 1..Len(split(filters.status, ","))}
                  ELSE {},
     priority |-> filters.priority]

\* the documents a filter query selects
matching(ts, query) ==
    {t \in DOMAIN ts :
        /\ ts[t].user = query.user
        /\ query.hasStatus => ts[t].status \in query.statusIn
        /\ query.priority # <<>> => ts[t].priority = wordOf(query.priority)}

\* the position of a field's value in the store's sort order: strings compare
\* byte-wise, and a field the document does not carry (dueDate) sorts as null
sortKey(task, field) ==
    LET rank == [s \in {"archived", "completed", "high", "in-progress", "low",
                        "medium", "todo"} |->
                    CASE s = "archived" -> 1 [] s = "completed" -> 2
                      [] s = "high" -> 3 [] s = "in-progress" -> 4
                      [] s = "low" -> 5 [] s = "medium" -> 6 [] s = "todo" -> 7]
    IN  IF field = "status" THEN rank[task.status]
        ELSE IF field = "priority" THEN rank[task.priority]
        ELSE 0

\* const [sortField, sortOrder] = sortBy.split(':'); sortOrder === 'desc' ? -1 : 1
sortOptions(sortBy) ==
    LET parts == split(sortBy, ":")
    IN  [field |-> parts[1],
         direction |-> IF Len(parts) >= 2 /\ parts[2] = "desc" THEN -1 ELSE 1]

\* Task.find(query).sort(options): the selected documents in an order that
\* agrees with the sort; documents with equal keys come in any order
findSorted(ts, query, options) ==
    LET found == matching(ts, query)
        n == Cardinality(found)
    IN  {order \in [1..n -> found] :
            /\ \A i, j \in 1..n : i # j => order[i] # order[j]
            /\ \A i, j \in 1..n :
                  i < j => options.direction * sortKey(ts[order[i]], options.field)
                              <= options.direction * sortKey(ts[order[j]], options.field)}

\* .skip(skip).limit(limitNum)
skipLimit(order, skip, limitNum) ==
    SubSeq(order, skip + 1, IF skip + limitNum <= Len(order)
                            THEN skip + limitNum ELSE Len(order))

\* Math.ceil(total / limitNum)
ceilDiv(total, limitNum) == (total + limitNum - 1) \div limitNum

\* the response of getTasks for one of the orders the store may return
getTasksResponse(ts, user, q, order) ==
    LET filterQuery == buildFilterQuery(user, [status |-> q.status,
                                               priority |-> q.priority])
        pageNum == parseInt(q.page)
        limitNum == parseInt(q.limit)
        skip == (pageNum - 1) * limitNum
        total == Cardinality(matching(ts, filterQuery))
    IN  [status |-> 200, code |-> "", message |-> "", tokens |-> <<>>,
         data |-> [tasks |-> skipLimit(order, skip, limitNum),
                   pagination |-> [total |-> total, page |-> pageNum,
                                   limit |-> limitNum,
                                   pages |-> ceilDiv(total, limitNum)],
                   stats |-> [s \in Statuses |->
                                 Cardinality({t \in DOMAIN ts :
                                     ts[t].user = user /\ ts[t].status = s})]]]

\* the query strings of the model
StatusQueries ==
    {<<>>, <<"todo">>, <<"todo", ",", "completed">>, <<"archived", ",">>}

PriorityQueries == {<<>>, <<"high">>}

SortQueries ==
    {<<"dueDate", ":", "asc">>, <<"priority", ":", "desc">>, <<"status">>}

PageQueries == {<<n>> : n \in 1..MaxPage} \cup {<<0, 2>>}

LimitQueries == {<<n>> : n \in 1..MaxLimit}

ListQueries ==
    [status : StatusQueries, priority : PriorityQueries, sortBy : SortQueries,
     page : PageQueries, limit : LimitQueries]

getTasks(q) ==
    /\ Authorized
    /\ \E order \in findSorted(tasks,
                               buildFilterQuery(req.user, [status |-> q.status,
                                                           priority |-> q.priority]),
                               sortOptions(q.sortBy)) :
           resp' = getTasksResponse(tasks, req.user, q, order)
    /\ req' = [stage |-> "done", op |-> "getTasks", user |-> req.user, query |-> q]
    /\ UNCHANGED <<users, issued, now, tasks, categories, nextId, procs>>

\* the tasks alice and bob have created and moved through their statuses
ListTasks ==
    [user : DOMAIN RegisteredUsers.users, title : Titles,
     status : {"todo", "completed", "archived"}, priority : {"low", "high"},
     category : {Null}, sharedWith : {<<>>}]

InitList ==
    /\ users = RegisteredUsers.users
    /\ issued = RegisteredUsers.issued
    /\ now = JWT_EXPIRE
    /\ \E n \in 0..MaxListTasks :
          /\ tasks \in [1..n -> ListTasks]
          /\ nextId = [task |-> n + 1, category |-> 1]
    /\ categories = <<>>
    /\ req = NoRequest
    /\ resp = NoResponse
    /\ procs = <<>>

NextList ==
    \/ \E header \in Headers : protect(header)
    \/ \E q \in ListQueries : getTasks(q)

SpecList == InitList /\ [][NextList]_vars

(***************************************************************************)
(* The handlers one storage call at a time: every await of createTask,     *)
(* updateTask, createCategory and deleteCategory is a step of its own, and *)
(* the requests in flight interleave between them.                         *)
(***************************************************************************)
MaxProcs == 2

Procs == 1..MaxProcs

\* a request in flight: its handler, its position, req.user, its inputs and the
\* task document the handler holds in memory
Proc(op, pc, user, id, body, doc) ==
    [op |-> op, pc |-> pc, user |-> user, id |-> id, body |-> body, doc |-> doc]

IdleProc == Proc("", "idle", NoUser, 0, <<>>, <<>>)

At(p, op, pc) == procs[p].op = op /\ procs[p].pc = pc

Goto(p, pc) == procs' = [procs EXCEPT ![p].pc = pc]

\* the handler sends its response and the request is over
Respond(p, r) ==
    /\ procs' = [procs EXCEPT ![p] = IdleProc]
    /\ resp' = r
    /\ req' = Request("done", procs[p].op, procs[p].user)

\* the request bodies of the interleaved PUT /tasks/:id
ConcUpdateBodies ==
    {[title |-> t] : t \in Titles}
        \cup {[title |-> t, category |-> c] : t \in Titles, c \in CatIds \cup {Null}}

\* a request passes the gate and its handler starts
startRequest(p, op, user, id, body) ==
    /\ procs[p].pc = "idle"
    /\ procs' = [procs EXCEPT ![p] = Proc(op, "start", user, id, body, <<>>)]
    /\ UNCHANGED <<users, issued, now, tasks, categories, nextId, req, resp>>

\* createTask: if (category) ...
createTask_begin(p) ==
    /\ At(p, "createTask", "start")
    /\ Goto(p, IF Truthy(procs[p].body.category) THEN "findCategory" ELSE "create")
    /\ UNCHANGED <<users, issued, now, tasks, categories, nextId, req, resp>>

\* createTask: await Category.findOne({ _id: category, user })
createTask_findCategory(p) ==
    /\ At(p, "createTask", "findCategory")
    /\ IF findCategory(categories, procs[p].body.category, procs[p].user) = {}
       THEN Respond(p, NotFound("Category not found"))
       ELSE Goto(p, "create") /\ UNCHANGED <<req, resp>>
    /\ UNCHANGED <<users, issued, now, tasks, categories, nextId>>

\* createTask: await Task.create({ ..., category, user })
createTask_create(p) ==
    /\ At(p, "createTask", "create")
    /\ nextId.task <= MaxTasks
    /\ LET body == procs[p].body
           task == [user |-> procs[p].user,
                    title |-> body.title,
                    status |-> DefaultStatus,
                    priority |-> DefaultPriority,
                    category |-> IF body.category = Undefined
                                 THEN Null ELSE body.category,
                    sharedWith |-> <<>>]
       IN  /\ tasks' = Insert(tasks, nextId.task, task)
           /\ nextId' = [nextId EXCEPT !.task = nextId.task + 1]
           /\ IF Truthy(body.category)
              THEN Goto(p, "incTaskCount") /\ UNCHANGED <<req, resp>>
              ELSE Respond(p, Success(201, "Task created successfully"))
    /\ UNCHANGED <<users, issued, now, categories>>

\* createTask: await Category.findByIdAndUpdate(category, { $inc: { taskCount: 1 } })
createTask_incTaskCount(p) ==
    /\ At(p, "createTask", "incTaskCount")
    /\ categories' = incTaskCount(categories, procs[p].body.category, 1)
    /\ CountsWithinBounds(categories')
    /\ Respond(p, Success(201, "Task created successfully"))
    /\ UNCHANGED <<users, issued, now, tasks, nextId>>

\* what updateTask does next once the old category's counter is dealt with
AfterOldCategory(oldCategory, newCategory) ==
    IF Truthy(newCategory) /\ oldCategory # newCategory
    THEN "findCategory" ELSE "save"

BodyCategory(body) ==
    IF "category" \in DOMAIN body THEN body.category ELSE Undefined

\* updateTask: await Task.findOne({ _id, user })
updateTask_findTask(p) ==
    /\ At(p, "updateTask", "start")
    /\ IF findTask(tasks, procs[p].id, procs[p].user) = {}
       THEN Respond(p, NotFound("Task not found"))
       ELSE LET task == tasks[procs[p].id]
                newCategory == BodyCategory(procs[p].body)
            IN  /\ procs' = [procs EXCEPT
                       ![p].doc = task,
                       ![p].pc = IF Truthy(task.category) /\ task.category # newCategory
                                 THEN "decTaskCount"
                                 ELSE AfterOldCategory(task.category, newCategory)]
                /\ UNCHANGED <<req, resp>>
    /\ UNCHANGED <<users, issued, now, tasks, categories, nextId>>

\* updateTask: await Category.findByIdAndUpdate(oldCategory, { $inc: { taskCount: -1 } })
updateTask_decTaskCount(p) ==
    /\ At(p, "updateTask", "decTaskCount")
    /\ categories' = incTaskCount(categories, procs[p].doc.category, -1)
    /\ CountsWithinBounds(categories')
    /\ Goto(p, AfterOldCategory(procs[p].doc.category, BodyCategory(procs[p].body)))
    /\ UNCHANGED <<users, issued, now, tasks, nextId, req, resp>>

\* updateTask: await Category.findOne({ _id: newCategory, user })
updateTask_findCategory(p) ==
    /\ At(p, "updateTask", "findCategory")
    /\ IF findCategory(categories, procs[p].body.category, procs[p].user) = {}
       THEN Respond(p, NotFound("Category not found"))
       ELSE Goto(p, "incTaskCount") /\ UNCHANGED <<req, resp>>
    /\ UNCHANGED <<users, issued, now, tasks, categories, nextId>>

\* updateTask: await Category.findByIdAndUpdate(newCategory, { $inc: { taskCount: 1 } })
updateTask_incTaskCount(p) ==
    /\ At(p, "updateTask", "incTaskCount")
    /\ categories' = incTaskCount(categories, procs[p].body.category, 1)
    /\ CountsWithinBounds(categories')
    /\ Goto(p, "save")
    /\ UNCHANGED <<users, issued, now, tasks, nextId, req, resp>>

\* task.save(): the paths the handler changed on its document are written to the
\* stored document; a document that is gone makes save throw
saveDocument(ts, id, doc, changed) ==
    [ts EXCEPT ![id] = [k \in DOMAIN ts[id] |->
                           IF k \in DOMAIN changed /\ changed[k] # doc[k]
                           THEN changed[k] ELSE ts[id][k]]]

\* updateTask: Object.keys(req.body).forEach(...); await task.save()
updateTask_save(p) ==
    /\ At(p, "updateTask", "save")
    /\ LET changed == assignBody(procs[p].doc, procs[p].body)
       IN  IF procs[p].id \in DOMAIN tasks
           THEN /\ tasks' = saveDocument(tasks, procs[p].id, procs[p].doc, changed)
                /\ Respond(p, Success(200, "Task updated successfully"))
           ELSE /\ UNCHANGED tasks
                /\ Respond(p, Failure(500, "SERVER_ERROR", "No document found"))
    /\ UNCHANGED <<users, issued, now, categories, nextId>>

\* createCategory: await Category.findOne({ name, user })
createCategory_findOne(p) ==
    /\ At(p, "createCategory", "start")
    /\ IF findCategoryByName(categories, procs[p].body.name, procs[p].user) # {}
       THEN Respond(p, Failure(409, "CATEGORY_EXISTS",
                               "Category with this name already exists"))
       ELSE Goto(p, "create") /\ UNCHANGED <<req, resp>>
    /\ UNCHANGED <<users, issued, now, tasks, categories, nextId>>

\* createCategory: await Category.create({ name, color, user }); the unique index
\* on (user, name) makes the insert of a second such document throw
createCategory_create(p) ==
    /\ At(p, "createCategory", "create")
    /\ IF findCategoryByName(categories, procs[p].body.name, procs[p].user) # {}
       THEN /\ Respond(p, Failure(500, "SERVER_ERROR", "E11000 duplicate key error"))
            /\ UNCHANGED <<categories, nextId>>
       ELSE /\ nextId.category <= MaxCats
            /\ categories' = Insert(categories, nextId.category,
                                    [name |-> procs[p].body.name,
                                     user |-> procs[p].user, taskCount |-> 0])
            /\ nextId' = [nextId EXCEPT !.category = nextId.category + 1]
            /\ Respond(p, Success(201, "Category created successfully"))
    /\ UNCHANGED <<users, issued, now, tasks>>

\* deleteCategory: await Category.findOneAndDelete({ _id, user })
deleteCategory_findOneAndDelete(p) ==
    /\ At(p, "deleteCategory", "start")
    /\ IF findCategory(categories, procs[p].id, procs[p].user) = {}
       THEN /\ Respond(p, NotFound("Category not found"))
            /\ UNCHANGED categories
       ELSE /\ categories' = Remove(categories, procs[p].id)
            /\ Goto(p, "updateMany")
            /\ UNCHANGED <<req, resp>>
    /\ UNCHANGED <<users, issued, now, tasks, nextId>>

\* deleteCategory: await Task.updateMany({ category, user }, { category: null })
deleteCategory_updateMany(p) ==
    /\ At(p, "deleteCategory", "updateMany")
    /\ tasks' = clearCategory(tasks, procs[p].id, procs[p].user)
    /\ Respond(p, Success(200, "Category deleted successfully"))
    /\ UNCHANGED <<users, issued, now, categories, nextId>>

\* alice alone has registered
OneUser ==
    LET r1 == registerOutcome(<<>>, 0, "alice", "alice@x.com", "secret1")
    IN  [users |-> r1.users, issued |-> TokensOf(r1.resp)]

InitConc ==
    /\ users = OneUser.users
    /\ issued = OneUser.issued
    /\ now = 0
    /\ tasks = <<>>
    /\ categories = <<>>
    /\ nextId = [task |-> 1, category |-> 1]
    /\ req = NoRequest
    /\ resp = NoResponse
    /\ procs = [p \in Procs |-> IdleProc]

NextConc ==
    \/ \E p \in Procs, user \in DOMAIN users, title \in Titles,
          category \in CatIds \cup {Undefined} :
           startRequest(p, "createTask", user, 0,
                        [title |-> title, category |-> category])
    \/ \E p \in Procs, user \in DOMAIN users, id \in TaskIds,
          body \in ConcUpdateBodies :
           startRequest(p, "updateTask", user, id, body)
    \/ \E p \in Procs, user \in DOMAIN users, name \in CategoryNames :
           startRequest(p, "createCategory", user, 0, [name |-> name])
    \/ \E p \in Procs, user \in DOMAIN users, id \in CatIds :
           startRequest(p, "deleteCategory", user, id, <<>>)
    \/ \E p \in Procs : createTask_begin(p)
    \/ \E p \in Procs : createTask_findCategory(p)
    \/ \E p \in Procs : createTask_create(p)
    \/ \E p \in Procs : createTask_incTaskCount(p)
    \/ \E p \in Procs : updateTask_findTask(p)
    \/ \E p \in Procs : updateTask_decTaskCount(p)
    \/ \E p \in Procs : updateTask_findCategory(p)
    \/ \E p \in Procs : updateTask_incTaskCount(p)
    \/ \E p \in Procs : updateTask_save(p)
    \/ \E p \in Procs : createCategory_findOne(p)
    \/ \E p \in Procs : createCategory_create(p)
    \/ \E p \in Procs : deleteCategory_findOneAndDelete(p)
    \/ \E p \in Procs : deleteCategory_updateMany(p)

SpecConc == InitConc /\ [][NextConc]_vars

(***************************************************************************)
(* createTask and deleteTask requests interleaved on one category          *)
(***************************************************************************)
MaxCountProcs == 3

CountProcs == 1..MaxCountProcs

\* the delete reading the task and leaving the document in the collection
deleteTask_findOne(p) ==
    /\ At(p, "deleteTask", "start")
    /\ IF {t \in DOMAIN tasks : t = procs[p].id /\ tasks[t].user = procs[p].user} = {}
       THEN Respond(p, NotFound("Task not found"))
       ELSE /\ procs' = [procs EXCEPT ![p].doc = tasks[procs[p].id],
                                      ![p].pc = "decTaskCount"]
            /\ UNCHANGED <<req, resp>>
    /\ UNCHANGED <<users, issued, now, tasks, categories, nextId>>

\* deleteTask: await Task.findOneAndDelete({ _id, user }): one storage call that
\* hands the document to one caller only
deleteTask_findOneAndDelete(p) ==
    /\ At(p, "deleteTask", "start")
    /\ IF findTask(tasks, procs[p].id, procs[p].user) = {}
       THEN /\ Respond(p, NotFound("Task not found"))
            /\ UNCHANGED tasks
       ELSE LET task == tasks[procs[p].id]
            IN  /\ tasks' = Remove(tasks, procs[p].id)
                /\ IF Truthy(task.category)
                   THEN /\ procs' = [procs EXCEPT ![p].doc = task,
                                                  ![p].pc = "decTaskCount"]
                        /\ UNCHANGED <<req, resp>>
                   ELSE Respond(p, Success(204, ""))
    /\ UNCHANGED <<users, issued, now, categories, nextId>>

\* deleteTask: await Category.findByIdAndUpdate(task.category, { $inc: { taskCount: -1 } })
deleteTask_decTaskCount(p) ==
    /\ At(p, "deleteTask", "decTaskCount")
    /\ categories' = incTaskCount(categories, procs[p].doc.category, -1)
    /\ CountsWithinBounds(categories')
    /\ Respond(p, Success(204, ""))
    /\ UNCHANGED <<users, issued, now, tasks, nextId>>

\* alice has registered and created the category Work
InitCount ==
    /\ users = OneUser.users
    /\ issued = OneUser.issued
    /\ now = 0
    /\ tasks = <<>>
    /\ categories = createCategoryOutcome(Db(<<>>, <<>>, [task |-> 1, category |-> 1]),
                                          1, "Work").db.categories
    /\ nextId = [task |-> 1, category |-> 2]
    /\ req = NoRequest
    /\ resp = NoResponse
    /\ procs = [p \in CountProcs |-> IdleProc]

NextCount ==
    \/ \E p \in CountProcs, user \in DOMAIN users, title \in Titles,
          category \in CatIds \cup {Undefined} :
           startRequest(p, "createTask", user, 0,
                        [title |-> title, category |-> category])
    \/ \E p \in CountProcs, user \in DOMAIN users, id \in TaskIds :
           startRequest(p, "deleteTask", user, id, <<>>)
    \/ \E p \in CountProcs : createTask_begin(p)
    \/ \E p \in CountProcs : createTask_findCategory(p)
    \/ \E p \in CountProcs : createTask_create(p)
    \/ \E p \in CountProcs : createTask_incTaskCount(p)
    \/ \E p \in CountProcs : deleteTask_findOneAndDelete(p)
    \/ \E p \in CountProcs : deleteTask_decTaskCount(p)

SpecCount == InitCount /\ [][NextCount]_vars

(***************************************************************************)
(* POST /auth/refresh one storage call at a time: the lookup and the save  *)
(* of concurrent refresh requests interleave.                              *)
(***************************************************************************)
\* the request is over; the response the client received is kept with it
Finish(p, r) ==
    /\ procs' = [procs EXCEPT ![p].pc = "done", ![p].doc = r]
    /\ resp' = r
    /\ req' = Request("done", procs[p].op, procs[p].user)

\* POST /auth/refresh comes in on a connection that has no request in flight
refreshToken_start(p, token) ==
    /\ procs[p].pc \in {"idle", "done"}
    /\ procs' = [procs EXCEPT
           ![p] = Proc("refreshToken", "start", NoUser, 0,
                       [refreshToken |-> token], <<>>)]
    /\ UNCHANGED <<users, issued, now, tasks, categories, nextId, req, resp>>

\* refreshToken: the checks on the body, jwt.verify, await User.findOne({ _id, refreshToken })
refreshToken_findOne(p) ==
    /\ At(p, "refreshToken", "start")
    /\ LET token == procs[p].body.refreshToken
       IN  IF token = NoToken
           THEN Finish(p, Failure(401, "NO_TOKEN", "Refresh token is required"))
           ELSE IF ~jwtVerify(token, "JWT_REFRESH_SECRET", JWT_REFRESH_EXPIRE, now)
           THEN Finish(p, Failure(401, "TOKEN_ERROR", "jwt verification failed"))
           ELSE IF findUserByIdAndRefreshToken(users, token[2], token) = {}
           THEN Finish(p, Failure(401, "INVALID_TOKEN", "Invalid refresh token"))
           ELSE /\ procs' = [procs EXCEPT ![p].pc = "save", ![p].id = token[2],
                                          ![p].doc = users[token[2]]]
                /\ UNCHANGED <<req, resp>>
    /\ UNCHANGED <<users, issued, now, tasks, categories, nextId>>

\* refreshToken: the new tokens are signed, user.refreshToken = newRefreshToken,
\* await user.save(), and the tokens are sent
refreshToken_save(p) ==
    /\ At(p, "refreshToken", "save")
    /\ LET id == procs[p].id
           newAccessToken == generateToken(id, now)
           newRefreshToken == generateRefreshToken(id, now)
       IN  /\ users' = [users EXCEPT ![id].refreshToken = newRefreshToken]
           /\ issued' = issued \cup {newAccessToken, newRefreshToken}
           /\ Finish(p, SuccessWithTokens(200, "", newAccessToken, newRefreshToken))
    /\ UNCHANGED <<now, tasks, categories, nextId>>

InitRefresh ==
    /\ users = OneUser.users
    /\ issued = OneUser.issued
    /\ now = 0
    /\ tasks = <<>>
    /\ categories = <<>>
    /\ nextId = [task |-> 1, category |-> 1]
    /\ req = NoRequest
    /\ resp = NoResponse
    /\ procs = [p \in Procs |-> IdleProc]

NextRefresh ==
    \/ \E p \in Procs, token \in PresentableTokens \cup {NoToken} :
           refreshToken_start(p, token)
    \/ \E p \in Procs : refreshToken_findOne(p)
    \/ \E p \in Procs : refreshToken_save(p)
    \/ \E email \in Emails, password \in Passwords : login(email, password)
    \/ Tick

SpecRefresh == InitRefresh /\ [][NextRefresh]_vars

(***************************************************************************)
(* Properties                                                              *)
(***************************************************************************)
Elems(seq) == {seq[i] : i \in 1..Len(seq)}

Succeeded(r) == r.status \in {200, 201, 204}

\* the tasks that reference category c and belong to c's owner
TasksOf(c) ==
    {t \in DOMAIN tasks :
        tasks[t].category = c /\ tasks[t].user = categories[c].user}

\* C1: between requests, every category's taskCount equals the number of tasks
\* that reference the category and belong to its owner.
C1_TaskCountMatches ==
    \A c \in DOMAIN categories : categories[c].taskCount = Cardinality(TasksOf(c))

\* C2: archived is terminal: no step takes an archived task that still exists
\* to another status.
C2_ArchivedIsTerminal ==
    [][\A t \in DOMAIN tasks :
          (tasks[t].status = "archived" /\ t \in DOMAIN tasks')
              => tasks'[t].status = "archived"]_vars

\* C3: a refresh token is single-use: right after refresh(T) succeeded, a
\* refresh with the same T is answered INVALID_TOKEN.
C3_RefreshTokenSingleUse ==
    [][\A token \in PresentableTokens :
          (refreshToken(token) /\ Succeeded(resp'))
              => refreshOutcome(users', now', token).resp.code = "INVALID_TOKEN"]_vars

C5_TenantIsolation ==
    [][/\ ~Authorized => UNCHANGED <<tasks, categories>>
       /\ Authorized =>
            /\ \A t \in DOMAIN tasks :
                  tasks[t].user # req.user
                      => t \in DOMAIN tasks' /\ tasks'[t] = tasks[t]
            /\ \A t \in DOMAIN tasks' \ DOMAIN tasks : tasks'[t].user = req.user
            /\ \A c \in DOMAIN categories :
                  categories[c].user # req.user
                      => c \in DOMAIN categories' /\ categories'[c] = categories[c]
            /\ \A c \in DOMAIN categories' \ DOMAIN categories :
                  categories'[c].user = req.user
       /\ \A t \in DOMAIN tasks \cap DOMAIN tasks' : tasks'[t].user = tasks[t].user
      ]_vars

\* a request of a user the task is shared with was handled against that task's
\* owner's data
C5_Witness ==
    /\ req.stage = "done"
    /\ req.op \in {"updateTask", "deleteTask", "updateTaskStatus",
                   "updateTaskPriority", "shareTask"}
    /\ resp.code = "NOT_FOUND"
    /\ \E t \in DOMAIN tasks :
          /\ tasks[t].user # req.user
          /\ req.user \in Elems(tasks[t].sharedWith)
          /\ tasks[t].category # Null

\* C6: with the storage calls of concurrent requests interleaved, every task
\* whose category is set references an existing category of the task's owner
\* (stated for the states in which no deleteCategory is between its two calls).
C6_CategoryReferenceValid ==
    (\A p \in Procs : procs[p].op # "deleteCategory")
        => \A t \in DOMAIN tasks :
              tasks[t].category # Null
                  => /\ tasks[t].category \in DOMAIN categories
                     /\ categories[tasks[t].category].user = tasks[t].user

\* C7: usernames and emails are unique, and a registration reusing either is
\* answered USER_EXISTS and leaves the users as they were.
C7_RegisterUnique ==
    [][\A username \in Usernames, email \in Emails, password \in Passwords :
          register(username, email, password)
              => /\ (\E u \in DOMAIN users :
                        users[u].username = username \/ users[u].email = email)
                        => resp'.code = "USER_EXISTS" /\ users' = users
                 /\ \A u, v \in DOMAIN users' :
                        u # v => /\ users'[u].username # users'[v].username
                                 /\ users'[u].email # users'[v].email]_vars

C7_Witness ==
    /\ req.op = "register"
    /\ resp.code = "USER_EXISTS"
    /\ Cardinality(DOMAIN users) = 1

\* C8: a login with an unknown email and a login with a known email and a wrong
\* password get the same response, and neither changes a user.
C8_NoEnumeration ==
    \A e1, e2 \in Emails, p1, p2 \in Passwords :
        LET known == findUserByEmail(users, e2)
        IN  (/\ findUserByEmail(users, e1) = {}
             /\ known # {}
             /\ \A u \in known : users[u].password # hashPassword(p2))
                => /\ loginOutcome(users, now, e1, p1).resp
                          = loginOutcome(users, now, e2, p2).resp
                   /\ loginOutcome(users, now, e1, p1).resp.code = "INVALID_CREDENTIALS"
                   /\ loginOutcome(users, now, e1, p1).resp.status = 401
                   /\ loginOutcome(users, now, e1, p1).users = users
                   /\ loginOutcome(users, now, e2, p2).users = users

C8_Witness ==
    /\ req.op = "login"
    /\ resp.code = "INVALID_CREDENTIALS"
    /\ Cardinality(DOMAIN users) = 1
    /\ \E u \in DOMAIN users : users[u].refreshToken # NoToken

\* C9: handlers run only behind the gate, and a rejection by the gate changes no
\* record and is the same response whatever the reason for it.
C9_UniformRejection ==
    [][/\ (tasks' # tasks \/ categories' # categories)
            => (Authorized /\ req.user \in DOMAIN users)
       /\ req'.stage = "rejected"
            => /\ resp'.code = "UNAUTHORIZED"
               /\ UNCHANGED <<users, tasks, categories>>
               /\ req.stage = "rejected" => resp' = resp]_vars

\* C10: updateTaskStatus on a task of the caller: from archived to another
\* status it is answered INVALID_TRANSITION and nothing changes; otherwise the
\* requested status becomes the task's status and nothing else changes.
C10_SetStatus ==
    [][\A id \in TaskIds, status \in Statuses :
          (updateTaskStatus(id, status) /\ findTask(tasks, id, req.user) # {})
              => IF tasks[id].status = "archived" /\ status # "archived"
                 THEN /\ resp'.code = "INVALID_TRANSITION"
                      /\ UNCHANGED <<tasks, categories>>
                 ELSE /\ Succeeded(resp')
                      /\ tasks' = [tasks EXCEPT ![id].status = status]
                      /\ UNCHANGED categories]_vars

C10_Witness ==
    /\ req.op = "updateTaskStatus"
    /\ resp.code = "INVALID_TRANSITION"
    /\ \E t \in DOMAIN tasks : tasks[t].status = "archived" /\ tasks[t].user = req.user

\* C11: createTask with a category of the caller adds exactly 1 to that
\* category's taskCount and changes no other category; deleteTask of a task with
\* a category takes exactly 1 off it and changes no other category; deleting the
\* task just created puts every counter back.
C11_CountStep ==
    [][/\ \A title \in Titles, priority \in PriorityInputs \cup {UndefinedPriority},
             category \in CatIds :
             (createTask(title, priority, category)
                 /\ findCategory(categories, category, req.user) # {})
                 => /\ Succeeded(resp')
                    /\ categories' = [categories EXCEPT ![category].taskCount = @ + 1]
                    /\ deleteTaskOutcome(Db(tasks', categories', nextId'),
                                         req.user, nextId.task).db.categories
                           = categories
       /\ \A id \in TaskIds :
             (deleteTask(id) /\ findTask(tasks, id, req.user) # {}
                 /\ tasks[id].category \in DOMAIN categories)
                 => /\ Succeeded(resp')
                    /\ id \notin DOMAIN tasks'
                    /\ categories' =
                           [categories EXCEPT ![tasks[id].category].taskCount = @ - 1]
      ]_vars

\* a task was deleted while two categories exist and every counter is back at 0
C11_Witness ==
    /\ req.op = "deleteTask"
    /\ resp.status = 204
    /\ nextId.task = 2
    /\ Cardinality(DOMAIN categories) = 2
    /\ \A c \in DOMAIN categories : categories[c].taskCount = 0

\* C12: deleteCategory(C) by C's owner removes C, sets category to null on the
\* owner's tasks that referenced C and changes nothing else: no other field of
\* those tasks, no other task, no other category.
C12_DeleteCategoryFrame ==
    [][\A id \in CatIds :
          (deleteCategory(id) /\ findCategory(categories, id, req.user) # {})
              => /\ Succeeded(resp')
                 /\ categories' = [c \in DOMAIN categories \ {id} |-> categories[c]]
                 /\ tasks' = [t \in DOMAIN tasks |->
                                 IF tasks[t].category = id /\ tasks[t].user = req.user
                                 THEN [tasks[t] EXCEPT !.category = Null]
                                 ELSE tasks[t]]]_vars

\* a category was deleted while another category with a task in it remains
C12_Witness ==
    /\ req.op = "deleteCategory"
    /\ Succeeded(resp)
    /\ \E t \in DOMAIN tasks :
          /\ tasks[t].user = req.user
          /\ tasks[t].category \in DOMAIN categories
          /\ tasks[t].status # DefaultStatus

\* C13: shareTask by the owner with an existing user: if the user is not in
\* sharedWith yet the call succeeds and appends it, otherwise it is answered
\* ALREADY_SHARED and sharedWith stays as it is.
C13_ShareOnce ==
    [][\A id \in TaskIds, userId \in UserIds :
          (shareTask(id, userId) /\ findTask(tasks, id, req.user) # {}
              /\ userId \in DOMAIN users)
              => IF userId \in Elems(tasks[id].sharedWith)
                 THEN resp'.code = "ALREADY_SHARED" /\ tasks' = tasks
                 ELSE /\ Succeeded(resp')
                      /\ tasks' = [tasks EXCEPT
                                      ![id].sharedWith = Append(@, userId)]]_vars

\* C14: logout sets the caller's stored refresh token to none and changes
\* nothing else, a second logout changes nothing, a user whose stored token is
\* none gets no refresh through with any token issued to it, and only a login or
\* a registration stores a token again.
C14_Logout ==
    [][/\ logout
            => /\ users' = [users EXCEPT ![req.user].refreshToken = NoToken]
               /\ logoutOutcome(users', req.user).users = users'
               /\ UNCHANGED <<tasks, categories, issued>>
       /\ \A u \in DOMAIN users' :
             users'[u].refreshToken = NoToken
                 => \A token \in issued' \cup ForgedTokens :
                       token[2] = u
                           => ~Succeeded(refreshOutcome(users', now', token).resp)
       /\ \A u \in DOMAIN users :
             (users[u].refreshToken = NoToken /\ users'[u].refreshToken # NoToken)
                 => req'.op \in {"login", "register"}
      ]_vars

\* the caller has logged out while holding a refresh token that has not expired
C14_Witness ==
    /\ req.op = "logout"
    /\ users[req.user].refreshToken = NoToken
    /\ \E token \in issued :
          /\ token[2] = req.user
          /\ jwtVerify(token, "JWT_REFRESH_SECRET", JWT_REFRESH_EXPIRE, now)

\* C16: a createTask or updateTask that is answered with a failure leaves every
\* task and every category, its taskCount included, as it was.
C16_NoPartialSuccess ==
    [][(Authorized /\ req'.op \in {"createTask", "updateTask"} /\ ~Succeeded(resp'))
          => UNCHANGED <<tasks, categories>>]_vars

\* C15: a createCategory whose insert meets a category of the same user and
\* name, created by a concurrent request after this one's existence check, is
\* answered as it would be had it run after that request: CATEGORY_EXISTS.
C15_DuplicateIsExists ==
    [][\A p \in Procs :
          createCategory_create(p)
              => resp' = createCategoryOutcome(CurrentDb, procs[p].user,
                                               procs[p].body.name).resp]_vars

\* C17: getTasks returns only tasks of the caller that pass the status (and
\* priority) filter, each once, in the requested sort order, the ones at
\* positions (page-1)*limit+1 .. page*limit of that order, so never more than
\* limit; pagination.total is the number of the caller's tasks that pass the
\* filter, whatever page and limit are.
C17_ListPage ==
    req.op = "getTasks"
        => LET q == req.query
               S == {split(q.status, ",")[i] : i \in 1..Len(split(q.status, ","))}
               wanted == {t \in DOMAIN tasks :
                             /\ tasks[t].user = req.user
                             /\ q.status # <<>> => tasks[t].status \in S
                             /\ q.priority # <<>> => tasks[t].priority = q.priority[1]}
               page == parseInt(q.page)
               limit == parseInt(q.limit)
               offset == (page - 1) * limit
               got == resp.data.tasks
               by == sortOptions(q.sortBy)
               key(t) == by.direction * sortKey(tasks[t], by.field)
               rest == Cardinality(wanted) - offset
           IN  /\ Succeeded(resp)
               /\ \A i \in 1..Len(got) : got[i] \in wanted
               /\ \A i, j \in 1..Len(got) : i # j => got[i] # got[j]
               /\ Len(got) <= limit
               /\ Len(got) = IF rest <= 0 THEN 0
                             ELSE IF rest < limit THEN rest ELSE limit
               /\ \A i \in 1..Len(got) :
                     /\ Cardinality({t \in wanted : key(t) < key(got[i])})
                            <= offset + i - 1
                     /\ Cardinality({t \in wanted : key(t) <= key(got[i])})
                            >= offset + i
               /\ resp.data.pagination.total = Cardinality(wanted)
               /\ resp.data.pagination.page = page
               /\ resp.data.pagination.limit = limit

\* a second page of a list filtered by status: tasks of the caller are left out
\* by the filter, tasks of another user exist, and the filtered set does not fit
\* on one page
C17_Witness ==
    /\ req.op = "getTasks"
    /\ Succeeded(resp)
    /\ req.query.status = <<"todo", ",", "completed">>
    /\ resp.data.pagination.page = 2
    /\ Len(resp.data.tasks) = 1
    /\ resp.data.pagination.total = 2
    /\ \E t \in DOMAIN tasks : tasks[t].user = req.user /\ tasks[t].status = "archived"
    /\ \A i \in 1..Len(resp.data.tasks) :
          tasks[resp.data.tasks[i]].status \in {"todo", "completed"}
    /\ \E t, u \in DOMAIN tasks :
          /\ tasks[t].user = req.user /\ tasks[u].user = req.user
          /\ tasks[t].status = "todo" /\ tasks[u].status = "completed"

\* C18: with createTask and deleteTask requests interleaved at their storage
\* calls, once no request is in flight every category's taskCount equals the
\* number of tasks referencing it: no increment or decrement is lost and a task
\* deleted by two requests at once is counted off once.
C18_CountAfterInterleaving ==
    (\A p \in CountProcs : procs[p].pc = "idle")
        => \A c \in DOMAIN categories :
              categories[c].taskCount = Cardinality(TasksOf(c))

\* a createTask finished its increment after a concurrent deleteTask had already
\* removed the task and counted it off
C18_Witness ==
    /\ \A p \in CountProcs : procs[p].pc = "idle"
    /\ req.op = "createTask"
    /\ resp.status = 201
    /\ tasks = <<>>
    /\ nextId.task = 2
    /\ \E c \in DOMAIN categories : categories[c].taskCount = 0

\* C19: of two refresh requests that presented the same stored refresh token T
\* and whose lookup and save interleaved, at most one succeeded (stated for a T
\* that the rotation replaced by a different value, so that a refresh handled
\* after the other's save could not have found T).
C19_OneRefreshWins ==
    \A p, q \in Procs :
        (/\ p # q
         /\ At(p, "refreshToken", "done") /\ At(q, "refreshToken", "done")
         /\ procs[p].body.refreshToken = procs[q].body.refreshToken
         /\ Succeeded(procs[p].doc)
         /\ procs[p].doc.tokens[2] # procs[p].body.refreshToken)
            => \/ ~Succeeded(procs[q].doc)
               \/ procs[q].doc.tokens[2] = procs[q].body.refreshToken

====
